---- MODULE Spec2Model ----
(***************************************************************************)
(* beetmoverscript/script.py: main -> async_main -> beetmove_bits ->       *)
(* beetmove_bit -> download / upload_to_s3.                                *)
(*                                                                         *)
(* Strings that the script only concatenates (URLs, paths, S3 keys) are    *)
(* sequences of tokens; "/" is the path separator token.  The collaborators*)
(* the script calls (get_task, validate_task_schema,                       *)
(* generate_candidates_manifest, download_file, upload_file) are inputs:   *)
(* each call returns or raises, chosen nondeterministically.               *)
(***************************************************************************)
EXTENDS Integers, Sequences, FiniteSets, TLC

VARIABLES
    pc,             \* position of the single thread of control
    argv,           \* sys.argv
    config,         \* context.config
    task,           \* context.task
    manifest,       \* the manifest of async_main
    job,            \* index of the current (locale, deliverable) of beetmove_bits
    beet_config,    \* beetmove_bit's local deep copy of context.config
    abs_file_path,  \* beetmove_bit's local scratch path
    dest,           \* index in `destinations` of beetmove_bit's upload loop
    url,            \* upload_to_s3's presigned url
    attempt,        \* retry_async's attempt counter
    tries,          \* calls of the retried function in the current retry_async
    fails,          \* of which raised
    lastErr,        \* kind of the last error of the current retry_async
    exitCode,       \* <<status>> once the process has exited, <<>> while it runs
    out,            \* what was printed: usage, Success!, traceback
    validated, validationFailed,        \* jobs by outcome of validate_artifact_url
    dlAttempted, dlSucceeded, dlFailed, \* jobs by outcome of download
    signed,                             \* log of <<job, dest>> presign requests
    upAttempted, upSucceeded, upFailed, \* <<job, dest>> by outcome of upload
    fetched,        \* log of the urls downloaded
    s3,             \* log of the keys uploaded
    exc,            \* <<e>> once the exception e has left async_main
    types_map,      \* the extension -> type table of the mimetypes module
    api_kwargs,     \* upload_to_s3's parameters of the presigned request
    headers         \* upload_to_s3's headers of the PUT

vars == <<pc, argv, config, task, manifest, job, beet_config, abs_file_path,
          dest, url, attempt, tries, fails, lastErr, exitCode, out,
          validated, validationFailed, dlAttempted, dlSucceeded, dlFailed,
          signed, upAttempted, upSucceeded, upFailed, fetched, s3, exc,
          types_map, api_kwargs, headers>>

----------------------------------------------------------------------------
\* Bounds of the model.

\* attempts of one retry_async call (the library default is not set by the script)
Attempts == 3

\* (locale, deliverable) entries of a manifest
MaxEntries == 3

\* command line arguments after the program name
MaxArgs == 2

----------------------------------------------------------------------------
\* Inputs.

Sep == "/"

\* sys.argv: the program name and up to MaxArgs arguments
ArgVectors == { <<"prog">> \o a : a \in UNION { [1..k -> {"cfg"}] : k \in 0..MaxArgs } }

EmptyDict == [k \in {} |-> {}]

\* the config file's content: with or without its own valid_artifact_task_ids
S3Config == [bucket |-> "bucket", credentials |-> [id |-> "id", key |-> "key"]]

ConfigFiles ==
    { [work_dir |-> <<Sep, "W">>, s3 |-> S3Config],
      [work_dir |-> <<Sep, "W">>, s3 |-> S3Config,
       valid_artifact_task_ids |-> {"t2"}] }

Tasks == { [dependencies |-> {"t1"}] }

NoTask == [dependencies |-> {}]

\* mapping[locale][deliverable] entries
Entries ==
    { [artifact |-> <<"t1", Sep, "a.asc">>, s3_key |-> <<"a.asc">>],
      [artifact |-> <<"t2", Sep, "b.exe">>, s3_key |-> <<"b.exe">>],
      [artifact |-> <<"t1", Sep, "c.asc">>, s3_key |-> <<Sep, "c.asc">>] }

\* the mappings of n entries: locales in iteration order, each with its
\* deliverables (at least one) in iteration order
RECURSIVE MappingsOf(_)
MappingsOf(n) ==
    IF n = 0 THEN { <<>> }
    ELSE UNION { { <<locale>> \o rest :
                     locale \in [1..k -> Entries], rest \in MappingsOf(n - k) } :
                 k \in 1..n }

Mappings == UNION { MappingsOf(n) : n \in 0..MaxEntries }

Manifests ==
    [ artifact_base_url : { <<"B">> },
      s3_prefix_dated   : { <<"D">>, <<"D", Sep>> },
      s3_prefix_latest  : { <<"L">> },
      mapping           : Mappings ]

NoManifest ==
    [ artifact_base_url |-> <<>>, s3_prefix_dated |-> <<>>,
      s3_prefix_latest |-> <<>>, mapping |-> <<>> ]

NoUrl == [key |-> <<>>, expired |-> FALSE]

\* exit codes a ScriptWorkerTaskException carries
TaskExitCodes == {1, 3, 4}

\* what a collaborator raises: a ScriptWorkerTaskException or anything else
Exceptions ==
    [cls : {"ScriptWorkerTaskException"}, exit_code : TaskExitCodes]
        \cup { [cls |-> "Exception", exit_code |-> 1] }

ErrorKinds == {"transient", "permanent"}

\* the static extension -> type table of beetmoverscript.constants
MIME_MAP == (".asc" :> "text/plain")

\* the table of the mimetypes module on the platform: .asc unknown, or known
\* with the platform's own type
PlatformTypes ==
    { (".exe" :> "application/octet-stream"),
      (".exe" :> "application/octet-stream") @@ (".asc" :> "application/pgp-signature") }

\* Python values that may be a str or a tuple
Str(x) == [type |-> "str", items |-> <<x>>]
Tuple(t) == [type |-> "tuple", items |-> t]
None == [type |-> "NoneType", items |-> <<>>]

NoKwargs == [Bucket |-> "", Key |-> <<>>, ContentType |-> None]

NoHeaders == [ContentType |-> None]

----------------------------------------------------------------------------
\* Pure helpers.

\* os.path.join(a, b)
JoinPath(a, b) ==
    IF b # <<>> /\ b[1] = Sep THEN b
    ELSE IF a = <<>> \/ a[Len(a)] = Sep THEN a \o b
    ELSE a \o <<Sep>> \o b

\* str.lstrip('/')
RECURSIVE LStrip(_)
LStrip(p) == IF p # <<>> /\ p[1] = Sep THEN LStrip(Tail(p)) ELSE p

\* a mutation of SetDefault: the value is assigned whatever d holds
SetAlways(d, k, v) == [x \in DOMAIN d \cup {k} |-> IF x = k THEN v ELSE d[x]]

\* dict.setdefault(k, v) on a copy of d
SetDefault(d, k, v) ==
    IF k \in DOMAIN d THEN d
    ELSE [x \in DOMAIN d \cup {k} |-> IF x = k THEN v ELSE d[x]]

\* validate_artifact_url accepts <base>/<taskId>/<filepath> with taskId among
\* cfg['valid_artifact_task_ids']
ArtifactUrlIsValid(cfg, u) ==
    /\ Len(u) >= 5
    /\ u[1] = "B" /\ u[2] = Sep /\ u[4] = Sep
    /\ u[3] \in cfg["valid_artifact_task_ids"]

\* and returns the filepath, stripped of leading separators
ArtifactRelPath(u) == LStrip(SubSeq(u, 5, Len(u)))

\* the extension of a file name
Extension(name) ==
    CASE name \in {"a.asc", "c.asc"} -> ".asc"
      [] name = "b.exe" -> ".exe"
      [] OTHER -> ""

\* mimetypes.guess_type(path): the pair (type, encoding), type None when the
\* table has no entry for the extension of the path
GuessType(table, path) ==
    LET ext == IF path = <<>> THEN "" ELSE Extension(path[Len(path)])
    IN  Tuple(<< IF ext \in DOMAIN table THEN Str(table[ext]) ELSE None, None >>)

\* setup_mimetypes: mimetypes.init(), then map(lambda, MIME_MAP.items()).
\* map() returns an iterator that nothing consumes, so the lambda with its
\* add_type call never runs and the table stays the platform's.
SetupMimetypes(table) == table

\* a mutation of BitOf: the two destinations in the other order
BitOfLatestFirst(m, e) ==
    [ source       |-> JoinPath(m.artifact_base_url, e.artifact),
      destinations |-> << JoinPath(m.s3_prefix_latest, e.s3_key),
                          JoinPath(m.s3_prefix_dated, e.s3_key) >> ]

\* the (source, destinations) of one mapping entry, as beetmove_bits builds them
BitOf(m, e) ==
    [ source       |-> JoinPath(m.artifact_base_url, e.artifact),
      destinations |-> << JoinPath(m.s3_prefix_dated, e.s3_key),
                          JoinPath(m.s3_prefix_latest, e.s3_key) >> ]

\* the beetmove_bit calls of beetmove_bits, in the order of its two loops
RECURSIVE BitsFrom(_, _)
BitsFrom(m, locale) ==
    IF locale > Len(m.mapping) THEN <<>>
    ELSE [d \in 1..Len(m.mapping[locale]) |-> BitOf(m, m.mapping[locale][d])]
             \o BitsFrom(m, locale + 1)

Bits(m) == BitsFrom(m, 1)

\* a mutation of RetryExceptions: only transient errors are retried
RetryOnlyTransient(kind) == kind = "transient"

\* retry_async is called without retry_exceptions: whatever the call raised
\* is retried
RetryExceptions(kind) == TRUE

\* a mutation of Fetched: a url fetched before is not fetched again
FetchedOnce(log, u) ==
    IF \E i \in 1..Len(log) : log[i] = u THEN log ELSE Append(log, u)

\* the urls fetched after a call of download_file fetched u
Fetched(log, u) == Append(log, u)

\* a mutation of TooManyRetries: retry_async never gives up
TooManyRetriesNever(a) == FALSE

\* a mutation of TooManyRetries: the last attempt is never made
TooManyRetriesEarly(a) == a >= Attempts

\* retry_async gives up once the incremented attempt counter exceeds the bound
TooManyRetries(a) == a > Attempts

----------------------------------------------------------------------------
Init ==
    /\ pc = "main"
    /\ argv \in ArgVectors
    /\ config = EmptyDict
    /\ task = NoTask
    /\ manifest = NoManifest
    /\ job = 0
    /\ beet_config = EmptyDict
    /\ abs_file_path = <<>>
    /\ dest = 0
    /\ url = NoUrl
    /\ attempt = 0 /\ tries = 0 /\ fails = 0 /\ lastErr = "none"
    /\ exitCode = <<>>
    /\ out = {}
    /\ validated = {} /\ validationFailed = {}
    /\ dlAttempted = {} /\ dlSucceeded = {} /\ dlFailed = {}
    /\ signed = <<>>
    /\ upAttempted = {} /\ upSucceeded = {} /\ upFailed = {}
    /\ fetched = <<>> /\ s3 = <<>>
    /\ exc = <<>>
    /\ types_map \in PlatformTypes
    /\ api_kwargs = NoKwargs
    /\ headers = NoHeaders

----------------------------------------------------------------------------
\* the exit status of the process when e leaves async_main: main catches
\* ScriptWorkerTaskException and exits with its exit_code; anything else is
\* uncaught and the interpreter exits with status 1
ExitStatus(e) ==
    IF e.cls = "ScriptWorkerTaskException" THEN e.exit_code ELSE 1

\* An exception leaves async_main and ends the process.
\* a mutation of Propagate: the failure is recorded and the loops go on
PropagateAndGoOn(e) ==
    /\ pc' = "beetmove_bits"
    /\ out' = out \cup {"traceback"}
    /\ exc' = <<e>>
    /\ UNCHANGED exitCode

\* a mutation of Propagate: the traceback is printed and main falls through
\* to its normal end
PropagateExitZero(e) ==
    /\ pc' = "exited"
    /\ out' = out \cup {"traceback"}
    /\ exc' = <<e>>
    /\ exitCode' = <<0>>

Propagate(e) ==
    /\ pc' = "exited"
    /\ out' = out \cup {"traceback"}
    /\ exc' = <<e>>
    /\ exitCode' = <<ExitStatus(e)>>

\* a mutation of WrongArgumentCount: only a missing argument is refused
TooFewArguments(a) == Len(a) < 2

\* setup_config, called without a config path: len(sys.argv) != 2
WrongArgumentCount(a) == Len(a) # 2

\* main up to run_until_complete, with setup_config, usage and
\* setup_mimetypes
Main ==
    /\ pc = "main"
    /\ IF WrongArgumentCount(argv)
       THEN /\ out' = out \cup {"usage"}
            /\ exitCode' = <<1>>
            /\ pc' = "exited"
            /\ UNCHANGED <<config, types_map>>
       ELSE /\ \E c \in ConfigFiles : config' = c
            /\ types_map' = SetupMimetypes(types_map)
            /\ pc' = "async_main"
            /\ UNCHANGED <<out, exitCode>>
    /\ UNCHANGED exc
    /\ UNCHANGED <<api_kwargs, headers,
                   argv, task, manifest, job, beet_config, abs_file_path, dest,
                   url, attempt, tries, fails, lastErr, validated,
                   validationFailed, dlAttempted, dlSucceeded, dlFailed,
                   signed, upAttempted, upSucceeded, upFailed, fetched, s3>>

\* async_main steps 1-3: get_task, validate_task_schema,
\* generate_candidates_manifest; any of them may raise
AsyncMain ==
    /\ pc = "async_main"
    /\ \/ /\ \E t \in Tasks : task' = t
          /\ \E m \in Manifests : manifest' = m
          /\ pc' = "beetmove_bits"
          /\ UNCHANGED <<out, exitCode, exc>>
       \/ /\ \E e \in Exceptions : Propagate(e)
          /\ UNCHANGED <<task, manifest>>
    /\ UNCHANGED <<types_map, api_kwargs, headers,
                   argv, config, job, beet_config, abs_file_path, dest, url,
                   attempt, tries, fails, lastErr, validated,
                   validationFailed, dlAttempted, dlSucceeded, dlFailed,
                   signed, upAttempted, upSucceeded, upFailed, fetched, s3>>

\* the loops of beetmove_bits: the next (locale, deliverable), or the return
\* to async_main, which logs Success!, and to main, which closes the loop
BeetmoveBits ==
    /\ pc = "beetmove_bits"
    /\ IF job < Len(Bits(manifest))
       THEN /\ job' = job + 1
            /\ pc' = "beetmove_bit"
            /\ UNCHANGED <<out, exitCode, exc>>
       ELSE /\ out' = out \cup {"Success!"}
            /\ exitCode' = <<0>>
            /\ pc' = "exited"
            /\ UNCHANGED <<job, exc>>
    /\ UNCHANGED <<types_map, api_kwargs, headers,
                   argv, config, task, manifest, beet_config, abs_file_path,
                   dest, url, attempt, tries, fails, lastErr, validated,
                   validationFailed, dlAttempted, dlSucceeded, dlFailed,
                   signed, upAttempted, upSucceeded, upFailed, fetched, s3>>

\* a mutation of BeetmoveBit: the result of the validation is not acted upon
BeetmoveBitUnchecked ==
    /\ pc = "beetmove_bit"
    /\ LET cfg == SetDefault(config, "valid_artifact_task_ids", task.dependencies)
           source == Bits(manifest)[job].source
       IN  /\ beet_config' = cfg
           /\ IF ArtifactUrlIsValid(cfg, source)
              THEN UNCHANGED validationFailed /\ validated' = validated \cup {job}
              ELSE UNCHANGED validated /\ validationFailed' = validationFailed \cup {job}
           /\ abs_file_path' = JoinPath(config.work_dir, ArtifactRelPath(source))
           /\ pc' = "download"
           /\ attempt' = 1 /\ tries' = 0 /\ fails' = 0 /\ lastErr' = "none"
    /\ UNCHANGED <<types_map, api_kwargs, headers,
                   argv, config, task, manifest, job, dest, url, dlAttempted,
                   dlSucceeded, dlFailed, signed, upAttempted, upSucceeded,
                   upFailed, fetched, s3, out, exitCode, exc>>

\* a mutation of BeetmoveBit: beet_config is context.config itself, not a copy
BeetmoveBitSharesConfig ==
    /\ pc = "beetmove_bit"
    /\ LET cfg == SetDefault(config, "valid_artifact_task_ids", task.dependencies)
           source == Bits(manifest)[job].source
       IN  /\ beet_config' = cfg
           /\ config' = cfg
           /\ IF ArtifactUrlIsValid(cfg, source)
              THEN /\ validated' = validated \cup {job}
                   /\ abs_file_path' = JoinPath(config.work_dir, ArtifactRelPath(source))
                   /\ pc' = "download"
                   /\ attempt' = 1 /\ tries' = 0 /\ fails' = 0 /\ lastErr' = "none"
                   /\ UNCHANGED <<validationFailed, out, exitCode, exc>>
              ELSE /\ validationFailed' = validationFailed \cup {job}
                   /\ \E c \in TaskExitCodes :
                        Propagate([cls |-> "ScriptWorkerTaskException", exit_code |-> c])
                   /\ UNCHANGED <<validated, abs_file_path, attempt, tries,
                                  fails, lastErr>>
    /\ UNCHANGED <<types_map, api_kwargs, headers,
                   argv, task, manifest, job, dest, url, dlAttempted,
                   dlSucceeded, dlFailed, signed, upAttempted, upSucceeded,
                   upFailed, fetched, s3>>

\* beetmove_bit up to the download: the config copy, the default of
\* valid_artifact_task_ids, validate_artifact_url, the scratch path
BeetmoveBit ==
    /\ pc = "beetmove_bit"
    /\ LET cfg == SetDefault(config, "valid_artifact_task_ids", task.dependencies)
           source == Bits(manifest)[job].source
       IN  /\ beet_config' = cfg
           /\ IF ArtifactUrlIsValid(cfg, source)
              THEN /\ validated' = validated \cup {job}
                   /\ abs_file_path' = JoinPath(config.work_dir, ArtifactRelPath(source))
                   /\ pc' = "download"
                   /\ attempt' = 1 /\ tries' = 0 /\ fails' = 0 /\ lastErr' = "none"
                   /\ UNCHANGED <<validationFailed, out, exitCode, exc>>
              ELSE /\ validationFailed' = validationFailed \cup {job}
                   /\ \E c \in TaskExitCodes :
                        Propagate([cls |-> "ScriptWorkerTaskException", exit_code |-> c])
                   /\ UNCHANGED <<validated, abs_file_path, attempt, tries,
                                  fails, lastErr>>
    /\ UNCHANGED <<types_map, api_kwargs, headers,
                   argv, config, task, manifest, job, dest, url, dlAttempted,
                   dlSucceeded, dlFailed, signed, upAttempted, upSucceeded,
                   upFailed, fetched, s3>>

\* a mutation of Download: when the retries are exhausted the failure is
\* swallowed and beetmove_bit goes on to its uploads
DownloadSwallowsFailure ==
    /\ pc = "download"
    /\ tries' = tries + 1
    /\ dlAttempted' = dlAttempted \cup {job}
    /\ \/ /\ dlSucceeded' = dlSucceeded \cup {job}
          /\ fetched' = Fetched(fetched, Bits(manifest)[job].source)
          /\ pc' = "upload_to_s3"
          /\ dest' = 1
          /\ UNCHANGED <<attempt, fails, lastErr, dlFailed>>
       \/ /\ fails' = fails + 1
          /\ \E k \in ErrorKinds :
               /\ lastErr' = k
               /\ attempt' = attempt + 1
               /\ IF TooManyRetries(attempt')
                  THEN /\ dlFailed' = dlFailed \cup {job}
                       /\ pc' = "upload_to_s3"
                       /\ dest' = 1
                  ELSE UNCHANGED <<pc, dlFailed, dest>>
          /\ UNCHANGED <<dlSucceeded, fetched>>
    /\ UNCHANGED <<types_map, api_kwargs, headers,
                   argv, config, task, manifest, job, beet_config,
                   abs_file_path, url, validated, validationFailed, signed,
                   upAttempted, upSucceeded, upFailed, s3, out, exitCode, exc>>

\* download: one call of download_file by retry_async.  A call that raises is
\* repeated, whatever it raised, until `Attempts` calls have raised; the last
\* exception then leaves beetmove_bit.
Download ==
    /\ pc = "download"
    /\ tries' = tries + 1
    /\ dlAttempted' = dlAttempted \cup {job}
    /\ \/ /\ dlSucceeded' = dlSucceeded \cup {job}
          /\ fetched' = Fetched(fetched, Bits(manifest)[job].source)
          /\ pc' = "upload_to_s3"
          /\ dest' = 1
          /\ UNCHANGED <<attempt, fails, lastErr, dlFailed, out, exitCode, exc>>
       \/ /\ fails' = fails + 1
          /\ \E k \in ErrorKinds :
               /\ lastErr' = k
               /\ attempt' = IF RetryExceptions(k) THEN attempt + 1 ELSE attempt
               /\ IF ~RetryExceptions(k) \/ TooManyRetries(attempt')
                  THEN /\ dlFailed' = dlFailed \cup {job}
                       /\ \E e \in Exceptions : Propagate(e)
                  ELSE UNCHANGED <<pc, dlFailed, out, exitCode, exc>>
          /\ UNCHANGED <<dlSucceeded, fetched, dest>>
    /\ UNCHANGED <<types_map, api_kwargs, headers,
                   argv, config, task, manifest, job, beet_config,
                   abs_file_path, url, validated, validationFailed, signed,
                   upAttempted, upSucceeded, upFailed, s3>>

\* upload_to_s3 up to retry_async: the presigned PUT url of the destination
UploadToS3 ==
    /\ pc = "upload_to_s3"
    /\ url' = [key |-> Bits(manifest)[job].destinations[dest], expired |-> FALSE]
    /\ api_kwargs' = [ Bucket      |-> config.s3.bucket,
                       Key         |-> Bits(manifest)[job].destinations[dest],
                       ContentType |-> GuessType(types_map, abs_file_path) ]
    /\ headers' = [ContentType |-> GuessType(types_map, abs_file_path)]
    /\ signed' = Append(signed, <<job, dest>>)
    /\ attempt' = 1 /\ tries' = 0 /\ fails' = 0 /\ lastErr' = "none"
    /\ pc' = "upload"
    /\ UNCHANGED <<types_map,
                   argv, config, task, manifest, job, beet_config,
                   abs_file_path, dest, exitCode, exc, out, validated,
                   validationFailed, dlAttempted, dlSucceeded, dlFailed,
                   upAttempted, upSucceeded, upFailed, fetched, s3>>

\* a mutation of Upload: a destination whose retries are exhausted is given up
\* and the loop goes on to the next destination
UploadSwallowsFailure ==
    /\ pc = "upload"
    /\ tries' = tries + 1
    /\ upAttempted' = upAttempted \cup {<<job, dest>>}
    /\ \E expiredNow \in BOOLEAN :
         LET expired == url.expired \/ expiredNow
         IN  /\ url' = [url EXCEPT !.expired = expired]
             /\ \/ /\ ~expired
                   /\ upSucceeded' = upSucceeded \cup {<<job, dest>>}
                   /\ s3' = Append(s3, url.key)
                   /\ IF dest < Len(Bits(manifest)[job].destinations)
                      THEN dest' = dest + 1 /\ pc' = "upload_to_s3"
                      ELSE dest' = dest /\ pc' = "beetmove_bits"
                   /\ UNCHANGED <<attempt, fails, lastErr, upFailed, out, exitCode, exc>>
                \/ /\ IF expired THEN lastErr' = "expired"
                      ELSE \E k \in ErrorKinds : lastErr' = k
                   /\ fails' = fails + 1
                   /\ attempt' = attempt + 1
                   /\ IF TooManyRetries(attempt')
                      THEN /\ upFailed' = upFailed \cup {<<job, dest>>}
                           /\ IF dest < Len(Bits(manifest)[job].destinations)
                              THEN dest' = dest + 1 /\ pc' = "upload_to_s3"
                              ELSE dest' = dest /\ pc' = "beetmove_bits"
                           /\ UNCHANGED <<out, exitCode, exc>>
                      ELSE UNCHANGED <<pc, upFailed, out, exitCode, exc, dest>>
                   /\ UNCHANGED <<upSucceeded, s3>>
    /\ UNCHANGED <<types_map, api_kwargs, headers,
                   argv, config, task, manifest, job, beet_config,
                   abs_file_path, validated, validationFailed, dlAttempted,
                   dlSucceeded, dlFailed, signed, fetched>>

\* a mutation of Upload: a presigned url is requested again before each retry
UploadResigns ==
    /\ pc = "upload"
    /\ tries' = tries + 1
    /\ upAttempted' = upAttempted \cup {<<job, dest>>}
    /\ \E expiredNow \in BOOLEAN :
         LET expired == url.expired \/ expiredNow
         IN  /\ url' = [url EXCEPT !.expired = expired]
             /\ \/ /\ ~expired
                   /\ upSucceeded' = upSucceeded \cup {<<job, dest>>}
                   /\ s3' = Append(s3, url.key)
                   /\ IF dest < Len(Bits(manifest)[job].destinations)
                      THEN dest' = dest + 1 /\ pc' = "upload_to_s3"
                      ELSE dest' = dest /\ pc' = "beetmove_bits"
                   /\ UNCHANGED <<attempt, fails, lastErr, upFailed, out, exitCode, exc, signed>>
                \/ /\ IF expired THEN lastErr' = "expired"
                      ELSE \E k \in ErrorKinds : lastErr' = k
                   /\ fails' = fails + 1
                   /\ attempt' = IF RetryExceptions(lastErr') THEN attempt + 1 ELSE attempt
                   /\ IF ~RetryExceptions(lastErr') \/ TooManyRetries(attempt')
                      THEN /\ upFailed' = upFailed \cup {<<job, dest>>}
                           /\ \E e \in Exceptions : Propagate(e)
                           /\ UNCHANGED dest
                      ELSE UNCHANGED <<pc, upFailed, out, exitCode, exc, dest>>
                   /\ signed' = Append(signed, <<job, dest>>)
                   /\ UNCHANGED <<upSucceeded, s3>>
    /\ UNCHANGED <<types_map, api_kwargs, headers,
                   argv, config, task, manifest, job, beet_config,
                   abs_file_path, validated, validationFailed, dlAttempted,
                   dlSucceeded, dlFailed, fetched>>

\* upload_to_s3's retry_async: one call of upload_file with the url made
\* before the first call.  The url may have expired by the time of a call;
\* a PUT to an expired url fails.  After the last destination beetmove_bit
\* returns to the loops of beetmove_bits.
Upload ==
    /\ pc = "upload"
    /\ tries' = tries + 1
    /\ upAttempted' = upAttempted \cup {<<job, dest>>}
    /\ \E expiredNow \in BOOLEAN :
         LET expired == url.expired \/ expiredNow
         IN  /\ url' = [url EXCEPT !.expired = expired]
             /\ \/ /\ ~expired
                   /\ upSucceeded' = upSucceeded \cup {<<job, dest>>}
                   /\ s3' = Append(s3, url.key)
                   /\ IF dest < Len(Bits(manifest)[job].destinations)
                      THEN dest' = dest + 1 /\ pc' = "upload_to_s3"
                      ELSE dest' = dest /\ pc' = "beetmove_bits"
                   /\ UNCHANGED <<attempt, fails, lastErr, upFailed, out, exitCode, exc>>
                \/ /\ IF expired THEN lastErr' = "expired"
                      ELSE \E k \in ErrorKinds : lastErr' = k
                   /\ fails' = fails + 1
                   /\ attempt' = IF RetryExceptions(lastErr') THEN attempt + 1 ELSE attempt
                   /\ IF ~RetryExceptions(lastErr') \/ TooManyRetries(attempt')
                      THEN /\ upFailed' = upFailed \cup {<<job, dest>>}
                           /\ \E e \in Exceptions : Propagate(e)
                           /\ UNCHANGED dest
                      ELSE UNCHANGED <<pc, upFailed, out, exitCode, exc, dest>>
                   /\ UNCHANGED <<upSucceeded, s3>>
    /\ UNCHANGED <<types_map, api_kwargs, headers,
                   argv, config, task, manifest, job, beet_config,
                   abs_file_path, validated, validationFailed, dlAttempted,
                   dlSucceeded, dlFailed, signed, fetched>>

Next ==
    \/ Main
    \/ AsyncMain
    \/ BeetmoveBits
    \/ BeetmoveBit
    \/ Download
    \/ UploadToS3
    \/ Upload

Spec == Init /\ [][Next]_vars

\* the event loop runs the one coroutine until it returns or raises, and
\* every awaited call returns or raises
FairSpec == Spec /\ WF_vars(Next)

----------------------------------------------------------------------------
\* Vocabulary of the properties.

\* the entries of the mapping, counted without the loops of beetmove_bits
RECURSIVE EntriesBefore(_, _)
EntriesBefore(m, locale) ==
    IF locale <= 1 THEN 0
    ELSE Len(m.mapping[locale - 1]) + EntriesBefore(m, locale - 1)

NumEntries(m) == EntriesBefore(m, Len(m.mapping) + 1)

\* a path cut at its separators, empty segments dropped
RECURSIVE PathSegments(_)
PathSegments(p) ==
    IF p = <<>> THEN <<>>
    ELSE IF p[1] = Sep THEN PathSegments(Tail(p))
    ELSE LET seps == { i \in 1..Len(p) : p[i] = Sep }
             n == IF seps = {} THEN Len(p) + 1
                  ELSE CHOOSE i \in seps : \A k \in seps : i <= k
         IN  <<SubSeq(p, 1, n - 1)>> \o PathSegments(SubSeq(p, n, Len(p)))

IsRelativePath(p) == p # <<>> /\ p[1] # Sep

\* section 3 of the specification: artifact and s3_key are relative paths
ValidManifest(m) ==
    \A l \in 1..Len(m.mapping) : \A d \in 1..Len(m.mapping[l]) :
        /\ IsRelativePath(m.mapping[l][d].artifact)
        /\ IsRelativePath(m.mapping[l][d].s3_key)

Exited == pc = "exited"

\* async_main got its task and manifest
Started == task # NoTask

DatedDest == 1
LatestDest == 2

UploadFailedJobs == { p[1] : p \in upFailed }

FailedJobs == validationFailed \cup dlFailed \cup UploadFailedJobs

SignedPairs == { signed[i] : i \in 1..Len(signed) }

JobSucceeded(j) ==
    /\ j \in validated /\ j \in dlSucceeded
    /\ <<j, DatedDest>> \in upSucceeded /\ <<j, LatestDest>> \in upSucceeded

JobTouched(j) ==
    \/ j \in validated \cup validationFailed \cup dlAttempted
    \/ \E d \in {DatedDest, LatestDest} : <<j, d>> \in upAttempted \cup SignedPairs

----------------------------------------------------------------------------
\* C1: a job whose source url fails validate_artifact_url never has a
\* download attempt, a presign request or an upload attempt; every job that
\* has a download attempt passed the validation first.
C1_ValidationPrecedesTransfer ==
    /\ \A j \in validationFailed :
         /\ j \notin dlAttempted
         /\ \A d \in {DatedDest, LatestDest} : <<j, d>> \notin upAttempted \cup SignedPairs
    /\ \A j \in dlAttempted : j \in validated

\* a second job failed the validation after the first was moved
C1_Witness ==
    /\ Exited
    /\ 2 \in validationFailed
    /\ 1 \in dlSucceeded

\* C2 as stated: every job whose download succeeded has an upload attempt on
\* both destinations, whatever happened to the other destination.
C2_BothDestinationsAttempted ==
    Exited =>
        \A j \in dlSucceeded :
            /\ <<j, DatedDest>> \in upAttempted
            /\ <<j, LatestDest>> \in upAttempted

\* C2 amended: the dated upload of a job whose download succeeded is always
\* attempted; the latest upload is attempted exactly when the dated upload
\* succeeded, and never after the dated upload failed.
C2_LatestOnlyAfterDated ==
    \A j \in dlSucceeded :
        /\ <<j, LatestDest>> \in upAttempted => <<j, DatedDest>> \in upSucceeded
        /\ <<j, DatedDest>> \in upFailed => <<j, LatestDest>> \notin upAttempted \cup SignedPairs
        /\ Exited => <<j, DatedDest>> \in upAttempted
        /\ Exited /\ <<j, DatedDest>> \in upSucceeded => <<j, LatestDest>> \in upAttempted

\* the dated upload of a downloaded job ran out of retries
C2_Witness ==
    /\ Exited
    /\ \E j \in dlSucceeded : <<j, DatedDest>> \in upFailed

\* C3 as stated: when the run ends every job of the manifest has been
\* attempted, whatever failed.
C3_EveryJobAttempted ==
    Exited /\ Started => \A j \in 1..NumEntries(manifest) : JobTouched(j)

\* C3 amended: the run is fail-fast.  The first job that fails ends the run
\* with a non-zero status; the jobs before it were moved completely, the
\* jobs after it are never attempted, and it is the only failure.
C3_FailFast ==
    \A f \in FailedJobs :
        /\ Exited
        /\ exitCode # <<0>>
        /\ FailedJobs = {f}
        /\ \A j \in 1..NumEntries(manifest) :
             /\ j < f => JobSucceeded(j)
             /\ j > f => ~JobTouched(j)

\* a job in the middle of the manifest failed
C3_Witness ==
    \E f \in FailedJobs : 1 < f /\ f < NumEntries(manifest)

\* C4: a job whose download failed has no presign request and no upload
\* attempt.
C4_NoUploadAfterFailedDownload ==
    \A j \in dlFailed : \A p \in upAttempted \cup SignedPairs : p[1] # j

\* a download ran out of retries
C4_Witness ==
    /\ Exited
    /\ job \in dlFailed
    /\ tries = Attempts

\* C5: a step that requests a presigned url or makes an upload attempt for a
\* job is taken only when the download of that job has already succeeded,
\* and no download attempt of a job follows its first upload step.
C5_DownloadBeforeUpload ==
    [][ /\ \A p \in (upAttempted' \ upAttempted) : p[1] \in dlSucceeded
        /\ Len(signed') > Len(signed) => signed'[Len(signed')][1] \in dlSucceeded
        /\ pc = "download" => \A p \in upAttempted \cup SignedPairs : p[1] # job
      ]_vars

\* an upload is being attempted after a download that needed a retry
C5_Witness ==
    /\ pc = "upload"
    /\ tries >= 1
    /\ job \in dlSucceeded
    /\ dest = LatestDest

\* C6: an upload attempt is never made right after an attempt of the same
\* upload failed on an expired url; a new url is requested first.
C6_FreshUrlAfterExpiry ==
    [][ pc = "upload" /\ tries' = tries + 1 => lastErr # "expired" ]_vars

\* C7: a run over a valid manifest in which every job succeeds ran one job
\* per entry; entry i was fetched from artifact_base_url/artifact and put at
\* s3_prefix_dated/s3_key, then at s3_prefix_latest/s3_key.
C7_OneJobPerEntry ==
    exitCode = <<0>> /\ Started /\ ValidManifest(manifest) =>
        /\ Cardinality(validated) = NumEntries(manifest)
        /\ Len(fetched) = NumEntries(manifest)
        /\ Len(s3) = 2 * NumEntries(manifest)
        /\ \A l \in 1..Len(manifest.mapping) : \A d \in 1..Len(manifest.mapping[l]) :
             LET i == EntriesBefore(manifest, l) + d
                 e == manifest.mapping[l][d]
             IN  /\ PathSegments(fetched[i]) =
                        PathSegments(manifest.artifact_base_url) \o PathSegments(e.artifact)
                 /\ PathSegments(s3[2 * i - 1]) =
                        PathSegments(manifest.s3_prefix_dated) \o PathSegments(e.s3_key)
                 /\ PathSegments(s3[2 * i]) =
                        PathSegments(manifest.s3_prefix_latest) \o PathSegments(e.s3_key)

\* a successful run over a valid manifest with two locales
C7_Witness ==
    /\ exitCode = <<0>>
    /\ ValidManifest(manifest)
    /\ Len(manifest.mapping) = 2
    /\ NumEntries(manifest) >= 3
    /\ manifest.s3_prefix_dated = <<"D", Sep>>

\* C8: a download that succeeds after K failures, K below the bound, has made
\* K + 1 attempts and is followed by the uploads of its job; as long as fewer
\* than the bound of attempts have failed the download is tried again.
C8_TransientDownloadRecovers ==
    [][ pc = "download" =>
          /\ job \in dlSucceeded' =>
                /\ tries' = fails' + 1
                /\ fails' < Attempts
                /\ pc' = "upload_to_s3" /\ dest' = DatedDest
          /\ job \notin dlSucceeded' /\ fails' < Attempts => pc' = "download"
      ]_vars

\* the download succeeded at its last permitted attempt
C8_Witness ==
    /\ pc = "upload_to_s3"
    /\ dest = DatedDest
    /\ job \in dlSucceeded
    /\ fails = Attempts - 1
    /\ tries = Attempts

\* C9 as stated: an attempt that fails with a permanent error ends the
\* operation at once.
C9_PermanentErrorAborts ==
    [][ tries' = tries + 1 /\ lastErr' = "permanent" => pc' = "exited" ]_vars

\* C9 amended: errors are not classified.  A failed attempt of a download or
\* an upload, permanent or transient, is followed by another attempt until
\* the bound of attempts is reached; only then is the operation abandoned.
C9_EveryErrorRetried ==
    [][ tries' = tries + 1 /\ fails' = fails + 1 =>
          /\ lastErr' \in ErrorKinds \cup {"expired"}
          /\ pc' = "exited" <=> tries' = Attempts
          /\ pc' # "exited" => pc' = pc
      ]_vars

\* an upload is about to be tried again after a permanent error
C9_Witness ==
    /\ pc = "upload"
    /\ lastErr = "permanent"
    /\ tries >= 1 /\ tries < Attempts

\* C10: the exit status is 0 exactly when every job of the manifest was
\* moved completely, and then Success! was logged; a run with a failed job
\* ends with a non-zero status.
C10_ExitZeroOnlyOnFullSuccess ==
    Exited =>
        /\ exitCode # <<>>
        /\ FailedJobs # {} => exitCode # <<0>>
        /\ exitCode = <<0>> =>
              /\ Started
              /\ "Success!" \in out
              /\ \A j \in 1..NumEntries(manifest) : JobSucceeded(j)
        /\ Started /\ (\A j \in 1..NumEntries(manifest) : JobSucceeded(j)) =>
              exitCode = <<0>> /\ "Success!" \in out

\* a run that moved several jobs and exited with 0
C10_Witness ==
    /\ Exited
    /\ exitCode = <<0>>
    /\ NumEntries(manifest) >= 2
    /\ "Success!" \in out

----------------------------------------------------------------------------
\* Vocabulary of the properties, continued.

\* the entry of the j-th (locale, deliverable) pair, without the loops of
\* beetmove_bits
RECURSIVE EntryFrom(_, _, _)
EntryFrom(m, locale, j) ==
    IF j <= Len(m.mapping[locale]) THEN m.mapping[locale][j]
    ELSE EntryFrom(m, locale + 1, j - Len(m.mapping[locale]))

EntryAt(m, j) == EntryFrom(m, 1, j)

\* the upstream task id of the source of an entry
UpstreamTaskId(e) == e.artifact[1]

Count(log, x) == Cardinality({ i \in 1..Len(log) : log[i] = x })

\* an exception left async_main and no job had failed: it came from
\* get_task, validate_task_schema or generate_candidates_manifest
TopLevelFatal == exc # <<>> /\ FailedJobs = {}

NoJobStep ==
    /\ job = 0
    /\ validated = {} /\ validationFailed = {}
    /\ dlAttempted = {} /\ fetched = <<>>
    /\ signed = <<>> /\ upAttempted = {} /\ s3 = <<>>

\* the exit statuses with which a run can end after a copy job failed: the
\* status of any exception a download or an upload may end with
JobFailureStatuses == { ExitStatus(e) : e \in Exceptions }

----------------------------------------------------------------------------
\* C11 as stated: a run that ends in a task-level fatal error exits with a
\* non-zero status that no run with a failed copy job exits with.
C11_FatalStatusDistinct ==
    Exited /\ TopLevelFatal =>
        /\ exitCode # <<0>>
        /\ exitCode[1] \notin JobFailureStatuses

\* C11 amended: a run that ends with an exception, top-level or of a job,
\* exits with a non-zero status, the exit_code of the exception when it is a
\* ScriptWorkerTaskException and 1 otherwise; the status does not tell the
\* two categories apart.
C11_StatusIsTheExceptions ==
    exc # <<>> =>
        /\ Exited
        /\ Len(exitCode) = 1 /\ exitCode[1] # 0
        /\ exc[1].cls = "ScriptWorkerTaskException" => exitCode[1] = exc[1].exit_code
        /\ exc[1].cls # "ScriptWorkerTaskException" => exitCode[1] = 1

\* a top-level fatal error ended the run with a status that a failed job
\* also ends a run with
C11_Witness ==
    /\ Exited
    /\ TopLevelFatal
    /\ ~Started
    /\ exitCode[1] \in JobFailureStatuses

\* C12: after a top-level fatal error the run has ended with a non-zero
\* status and a traceback, and no validation, download, presign request or
\* upload was ever made.
C12_FatalBeforeAnyJob ==
    TopLevelFatal =>
        /\ Exited
        /\ "traceback" \in out
        /\ exitCode \notin {<<>>, <<0>>}
        /\ ~Started
        /\ NoJobStep

\* async_main raised before beetmove_bits
C12_Witness ==
    /\ Exited
    /\ TopLevelFatal
    /\ config \in ConfigFiles

\* C13 as stated: a source whose upstream task id is not in the task's
\* dependencies fails the validation, whatever the configuration holds.
C13_OnlyDependenciesPass ==
    \A j \in validated \cup validationFailed :
        UpstreamTaskId(EntryAt(manifest, j)) \notin task.dependencies
            => j \in validationFailed

\* C13 amended: the ids a source is validated against are the
\* valid_artifact_task_ids of the configuration when it has that entry, and
\* the task's dependencies only when it has not; a source passes exactly
\* when its upstream task id is among them.
C13_ConfiguredIdsFirst ==
    LET ids == IF "valid_artifact_task_ids" \in DOMAIN config
               THEN config["valid_artifact_task_ids"]
               ELSE task.dependencies
    IN  \A j \in validated \cup validationFailed :
            /\ j \in validated <=> UpstreamTaskId(EntryAt(manifest, j)) \in ids
            /\ j \in validationFailed <=> UpstreamTaskId(EntryAt(manifest, j)) \notin ids

\* a source from outside the dependencies passed, one from a dependency failed
C13_Witness ==
    /\ Exited
    /\ \E j \in validated :
         UpstreamTaskId(EntryAt(manifest, j)) \notin task.dependencies
    /\ \E j \in validationFailed :
         UpstreamTaskId(EntryAt(manifest, j)) \in task.dependencies

\* C14: the Content-Type of the presigned request and of the PUT headers of
\* a file whose extension is in MIME_MAP is the type MIME_MAP gives it.
C14_ContentTypeFromMimeMap ==
    pc = "upload" =>
        LET ext == Extension(abs_file_path[Len(abs_file_path)])
        IN  ext \in DOMAIN MIME_MAP =>
                /\ api_kwargs.ContentType = Str(MIME_MAP[ext])
                /\ headers.ContentType = Str(MIME_MAP[ext])

\* C15: every destination with a presign request or an upload attempt has
\* exactly one presign request, made after the download of its job
\* succeeded, and its upload is attempted: the only presigned destination
\* without an attempt is the one whose first attempt comes next.
C15_OnePresignPerUpload ==
    \A p \in upAttempted \cup SignedPairs :
        /\ Count(signed, p) = 1
        /\ p[1] \in dlSucceeded
        /\ p \in upAttempted \/ (pc = "upload" /\ p = <<job, dest>> /\ tries = 0)

\* an upload is in its retries, with the one url of its first attempt
C15_Witness ==
    /\ pc = "upload"
    /\ tries >= 2
    /\ fails = tries
    /\ Count(signed, <<job, dest>>) = 1

\* C16: a run in which every job succeeded has fetched the source of every
\* entry, in order, once per entry, also when entries share a source.
C16_OneDownloadPerEntry ==
    exitCode = <<0>> /\ Started =>
        /\ dlSucceeded = 1..NumEntries(manifest)
        /\ validated = 1..NumEntries(manifest)
        /\ Len(fetched) = NumEntries(manifest)
        /\ \A j \in 1..NumEntries(manifest) :
             fetched[j] = manifest.artifact_base_url \o <<Sep>>
                              \o EntryAt(manifest, j).artifact

\* a successful run over two entries with the same source
C16_Witness ==
    /\ exitCode = <<0>>
    /\ NumEntries(manifest) >= 2
    /\ EntryAt(manifest, 1).artifact = EntryAt(manifest, 2).artifact
    /\ Len(fetched) >= 2
    /\ fetched[1] = fetched[2]

\* C17: with no argument or more than one, the run ends in main with the
\* usage message and status 1; no configuration is loaded and no job step
\* made.  With one argument no usage message is printed.
C17_UsageOnWrongArgumentCount ==
    /\ Len(argv) # 2 /\ pc # "main" =>
          /\ Exited
          /\ exitCode = <<1>>
          /\ out = {"usage"}
          /\ config = EmptyDict
          /\ ~Started
          /\ NoJobStep
    /\ Len(argv) = 2 => "usage" \notin out

\* the run was refused for an argument too many
C17_Witness ==
    /\ Exited
    /\ Len(argv) > 2
    /\ "usage" \in out

\* C18: no retry_async makes more than the bound of attempts, and every run
\* reaches its end.
C18_RunTerminates ==
    /\ [](tries <= Attempts)
    /\ <>Exited

\* a run ended after an operation used all its attempts
C18_Witness ==
    /\ Exited
    /\ job >= 2
    /\ tries = Attempts
    /\ fails = Attempts

\* C19: the jobs run one after the other in the order of the manifest.  The
\* jobs before the current one were moved completely, the jobs after it are
\* untouched; the presign requests come in the order dated, latest, job by
\* job, and latest only after dated succeeded; the logs grow one entry per
\* successful operation.
C19_StrictlySequential ==
    /\ \A j \in 1..NumEntries(manifest) :
         /\ j < job => JobSucceeded(j)
         /\ j > job => ~JobTouched(j)
    /\ \A i \in 1..Len(signed) : signed[i] = <<(i + 1) \div 2, 2 - (i % 2)>>
    /\ \A p \in SignedPairs :
         p[2] = LatestDest => <<p[1], DatedDest>> \in upSucceeded
    /\ Len(fetched) = Cardinality(dlSucceeded)
    /\ Len(s3) = Cardinality(upSucceeded)
    /\ pc \in {"beetmove_bit", "download"} =>
         \A p \in upAttempted \cup SignedPairs : p[1] < job

\* the latest upload of the second job is being retried
C19_Witness ==
    /\ pc = "upload"
    /\ job = 2
    /\ dest = LatestDest
    /\ tries >= 1

\* C20: no step after the configuration was loaded changes context.config,
\* and no step after the manifest was generated changes the manifest.
C20_ConfigAndManifestUntouched ==
    [][ /\ pc # "main" => config' = config
        /\ pc # "async_main" => manifest' = manifest
      ]_vars

\* a second job got its default on the copy while context.config has none
C20_Witness ==
    /\ pc = "download"
    /\ job >= 2
    /\ "valid_artifact_task_ids" \in DOMAIN beet_config
    /\ "valid_artifact_task_ids" \notin DOMAIN config
    /\ config \in ConfigFiles

====
